---- MODULE Spec2Model ----
(***************************************************************************)
(* Quiz web service (my-docker-app/app.js): session authentication over a  *)
(* MongoDB user collection, a fixed quiz catalog and score submission.     *)
(* Every route handler is modelled with one step per segment between its   *)
(* awaits and callbacks, and every operation on the user collection with a *)
(* step of its own, taken between the segment that sends it and the        *)
(* segment that resumes with its answer.  The session middleware gives     *)
(* each request its own copy of the session, loaded when the request       *)
(* arrives and written back to the store when the response ends if the     *)
(* handler modified it.                                                    *)
(***************************************************************************)
EXTENDS Integers, Sequences, FiniteSets, TLC

\* ------------------------------------------------------------------ bounds
\* Requests that may be in flight at once.
MaxInFlight == 2
\* Session ids the session middleware may issue over a run.
MaxSid == 2
\* Longest JS array sent as "answers".
MaxArrayLen == 2

\* ------------------------------------------------- request inputs (bounded)
\* A body field that is missing (JS undefined).
Absent == "<undefined>"
Usernames == {"", "alice", "bob"}
Passwords == {"", "pw1", "pw2", Absent}
\* credentials <<username, password>> sent to /api/register and /api/login
Credentials == Usernames \X Passwords
\* registrations choose among fewer passwords than logins try
RegisterCredentials == Usernames \X (Passwords \ {"pw2"})
\* the smaller sets clients draw from when requests run concurrently
RegisterSome == {<<"", "pw1">>, <<"alice", "pw1">>}
LoginSome ==
  {<<"", "pw1">>, <<"alice", "pw1">>, <<"alice", "">>, <<"alice", Absent>>}
Salts == {"salt1"}

\* --------------------------------------------------------- program constants
BcryptCost == 10

\* ------------------------------------------------------------- quiz catalog
quizQuestions ==
  << [id |-> 1, q |-> "Which piece moves in an L-shape in chess?",
      options |-> <<"Bishop", "Knight", "Rook", "Queen">>, answerIndex |-> 1],
     [id |-> 2, q |-> "How many squares are on a chessboard?",
      options |-> <<"64", "72", "56", "48">>, answerIndex |-> 0],
     [id |-> 3, q |-> "Which piece can castle with the king?",
      options |-> <<"Queen", "Rook", "Bishop", "Knight">>, answerIndex |-> 1] >>

QuestionIds == {quizQuestions[i].id : i \in 1..Len(quizQuestions)}

\* ------------------------------------------------------------- JSON values
\* A selection: a JS value found under a question id.  t is its typeof.
Sel(t, v) == [t |-> t, v |-> v]
Undefined == Sel("undefined", 0)
Selections == {Sel("number", 0), Sel("number", 1), Sel("string", 1)}

\* The "answers" body field.  kind is the JSON shape; n the value of a number
\* or the length of a string; val the members of an object (keyed by question
\* id) or of an array (element i+1 of the sequence is JS index i).
Ans(kind, n, val) == [kind |-> kind, n |-> n, val |-> val]
AnsObject(f) == Ans("object", 0, f)
AnsArray(s) == Ans("array", 0, s)

ObjectAnswers ==
  UNION {{AnsObject(f) : f \in [D -> Selections]} : D \in SUBSET QuestionIds}
ArrayAnswers ==
  UNION {{AnsArray(s) : s \in [1..n -> {Sel("number", 0), Sel("number", 1)}]}
         : n \in 0..MaxArrayLen}
ScalarAnswers ==
  {Ans("undefined", 0, <<>>), Ans("null", 0, <<>>), Ans("number", 0, <<>>),
   Ans("number", 5, <<>>), Ans("string", 0, <<>>), Ans("string", 3, <<>>)}

AnswersAll == ObjectAnswers \cup ArrayAnswers \cup ScalarAnswers
AllCorrect ==
  AnsObject([i \in QuestionIds |-> Sel("number", quizQuestions[i].answerIndex)])
AnswersSome ==
  {Ans("undefined", 0, <<>>), AnsObject(<<>>), AnsObject(<<Sel("number", 1)>>)}

\* !answers
Falsy(a) ==
  \/ a.kind \in {"undefined", "null"}
  \/ a.kind = "number" /\ a.n = 0
  \/ a.kind = "string" /\ a.n = 0

\* typeof answers
TypeOf(a) ==
  IF a.kind \in {"null", "array", "object"} THEN "object" ELSE a.kind

\* answers[q.id]
Lookup(a, id) ==
  IF a.kind = "object" /\ id \in DOMAIN a.val THEN a.val[id]
  ELSE IF a.kind = "array" /\ (id + 1) \in DOMAIN a.val THEN a.val[id + 1]
  ELSE Undefined

\* the forEach of the submit handler, over the first n catalog questions
RECURSIVE ScoreUpTo(_, _)
ScoreUpTo(a, n) ==
  IF n = 0 THEN 0
  ELSE LET qq == quizQuestions[n]
           sel == Lookup(a, qq.id)
       IN ScoreUpTo(a, n - 1)
          + (IF sel.t = "number" /\ sel.v = qq.answerIndex THEN 1 ELSE 0)

\* a scoring that compares the selection without testing its type
ScoreNoTypeCheck(a) ==
  Cardinality({i \in 1..Len(quizQuestions) :
                 Lookup(a, quizQuestions[i].id).t # "undefined"
                 /\ Lookup(a, quizQuestions[i].id).v = quizQuestions[i].answerIndex})

ComputeScore(a) == ScoreUpTo(a, Len(quizQuestions))

\* the validation of the submit handler: TRUE when the request is rejected
AnswersInvalid(a) == Falsy(a) \/ TypeOf(a) # "object"

\* a listing that returns the catalog records as they are
WithAnswers(qs) == qs

\* quizQuestions.map(({ id, q, options }) => ({ id, q, options }))
withoutAnswers(qs) ==
  [i \in 1..Len(qs) |-> [id |-> qs[i].id, q |-> qs[i].q, options |-> qs[i].options]]

\* ---------------------------------------------------------- password hashing
\* bcrypt.hash(password, 10): a salted one-way digest
Digest(password, salt) == <<salt, password>>
Hash(password, salt) ==
  [cost |-> BcryptCost, salt |-> salt, digest |-> Digest(password, salt)]
NoHash == [cost |-> 0, salt |-> "", digest |-> <<"", "">>]

\* bcryptjs rejects a non-string argument ("Illegal arguments")
IsString(p) == p # Absent

\* bcrypt.compare(password, hash)
Compare(password, hash) == Digest(password, hash.salt) = hash.digest

\* --------------------------------------------------------- user collection
\* users is the MongoDB collection of User documents in insertion order; the
\* _id of a document is its position.
NoUser == [id |-> 0, username |-> "", passwordHash |-> NoHash, score |-> 0]
Doc(us, i) ==
  [id |-> i, username |-> us[i].username,
   passwordHash |-> us[i].passwordHash, score |-> us[i].score]

\* a lookup that never finds a document
FindNone(us, username) == 0

\* User.findOne({ username }): the _id of the first match, 0 for null
FindOne(us, username) ==
  IF \E i \in DOMAIN us : us[i].username = username
  THEN CHOOSE i \in DOMAIN us :
         /\ us[i].username = username
         /\ \A j \in DOMAIN us : us[j].username = username => i <= j
  ELSE 0

\* a collection whose username index is not unique
NoUniqueIndex(us, username) == FALSE

\* username: { unique: true }: the insert is refused with a duplicate-key error
UniqueIndexViolated(us, username) ==
  \E i \in DOMAIN us : us[i].username = username

\* User.create({ username, passwordHash }); score takes the schema default
NewUserDoc(username, passwordHash) ==
  [username |-> username, passwordHash |-> passwordHash, score |-> 0]

\* an update that matches no document
UpdateNothing(us, id, score) == us

\* User.updateOne({ _id }, { score })
UpdateOne(us, id, score) ==
  [i \in DOMAIN us |-> IF i = id THEN [us[i] EXCEPT !.score = score] ELSE us[i]]

\* ----------------------------------------------------------------- sessions
NoSid == 0
Sids == 1..MaxSid
\* a session the middleware has just generated: no field set (score -1: unset)
EmptySession == [userId |-> 0, username |-> "", score |-> -1]

\* requireLogin calls next(): req.session && req.session.userId
requireLogin(sess) == sess.userId # 0

\* the session after the assignments of the register handler
RegisterSession(user) ==
  [userId |-> user.id, username |-> user.username, score |-> 0]

\* a login that resets the session score instead of loading the stored one
LoginSessionScoreReset(user) ==
  [userId |-> user.id, username |-> user.username, score |-> 0]

\* the session after the assignments of the login handler
LoginSession(user) ==
  [userId |-> user.id, username |-> user.username, score |-> user.score]

\* req.session.score = score
SubmitSession(sess, score) == [sess EXCEPT !.score = score]

\* req.session.destroy(callback) on the default (memory) store: the stored
\* session is deleted, and the callback is deferred and called without error
Destroy(st, sid) ==
  [sessions |-> [s \in DOMAIN st \ {sid} |-> st[s]], err |-> FALSE]

\* the Set-Cookie header of a response for the cookie 'sid': none, the session
\* id (the session was saved; the cookie has a maxAge), or an expired cookie
\* (res.clearCookie)
NoCookie == [op |-> "none", sid |-> NoSid]
SetCookie(sid) == [op |-> "set", sid |-> sid]
ClearCookie == [op |-> "clear", sid |-> NoSid]

\* ---------------------------------------------------------------- responses
Error(msg) == [error |-> msg]
NoBody == [none |-> TRUE]
Reply(status, body) == [status |-> status, body |-> body]

\* a login that tells an unknown username apart
UnknownUserNotFound == Reply(404, Error("User not found"))

UnknownUserResponse == Reply(400, Error("Invalid credentials"))
WrongPasswordResponse == Reply(400, Error("Invalid credentials"))
ValidationResponse == Reply(400, Error("Username and password required"))
ConflictResponse == Reply(409, Error("User already exists"))
UnauthorizedResponse == Reply(401, Error("Unauthorized. Please login."))
AnswersRequiredResponse == Reply(400, Error("Answers required"))
RegisteredResponse(user) ==
  Reply(200, [message |-> "Registered and logged in", username |-> user.username])
LoggedInResponse(user) ==
  Reply(200, [message |-> "Logged in", username |-> user.username])
LoggedOutResponse == Reply(200, [message |-> "Logged out"])
LogoutFailedResponse == Reply(500, Error("Logout failed"))
\* the callback of req.session.destroy
LogoutResponse(err) == IF err THEN LogoutFailedResponse ELSE LoggedOutResponse
MeResponse(sess) ==
  IF sess.userId = 0 THEN Reply(200, [authenticated |-> FALSE])
  ELSE Reply(200, [authenticated |-> TRUE, username |-> sess.username])
QuestionsResponse ==
  Reply(200, [questions |-> withoutAnswers(quizQuestions)])
SubmitResponse(score) ==
  Reply(200, [score |-> score, total |-> Len(quizQuestions),
              message |-> <<"You scored ", score, "/", Len(quizQuestions)>>])

\* -------------------------------------------------------------------- state
VARIABLES
  users,      \* the User collection
  store,      \* the session store: session id -> saved session
  nextSid,    \* the next session id the middleware issues
  reqs,       \* the requests in flight, by slot
  last,       \* the response sent by the latest step, if it sent one
  up,         \* the process is running
  loggedOut   \* session ids whose logout completed, with no login or
              \* registration completed on them since

vars == <<users, store, nextSid, reqs, last, up, loggedOut>>

Slots == 1..MaxInFlight

Idle ==
  [type |-> "idle", pc |-> "idle", sid |-> NoSid,
   sess |-> EmptySession, username |-> "",
   password |-> "", answers |-> Ans("undefined", 0, <<>>), user |-> NoUser,
   passwordHash |-> NoHash, score |-> 0, err |-> FALSE,
   afterLogout |-> FALSE, overwritten |-> FALSE]

NoResponse ==
  [slot |-> 0, status |-> 0, body |-> NoBody, cookie |-> NoCookie,
   req |-> Idle, sess |-> EmptySession]

Init ==
  /\ users = <<>>
  /\ store = <<>>
  /\ nextSid = 1
  /\ reqs = [r \in Slots |-> Idle]
  /\ last = NoResponse
  /\ up = TRUE
  /\ loggedOut = {}

\* ------------------------------------------------------- session middleware
\* The request as the handler first sees it: the session named by the cookie
\* is read from the store, and a cookie naming no stored session gets a newly
\* generated one.
NewRequest(type, cookie, username, password, answers) ==
  LET has == cookie \in DOMAIN store
      sess == IF has THEN store[cookie] ELSE EmptySession
  IN [type |-> type, pc |-> "start", sid |-> IF has THEN cookie ELSE NoSid,
      sess |-> sess, username |-> username,
      password |-> password, answers |-> answers, user |-> NoUser,
      passwordHash |-> NoHash, score |-> 0, err |-> FALSE,
      afterLogout |-> type \in {"me", "questions", "submit"}
                      /\ cookie \in loggedOut,
      overwritten |-> FALSE]

\* the process is running and the response of the latest step has left it
Running == up /\ last = NoResponse

\* a new request takes the lowest free slot; k caps the requests in flight
CanArrive(r, k, cookie) ==
  /\ Running
  /\ r <= k
  /\ reqs[r] = Idle
  /\ \A r2 \in 1..(r - 1) : reqs[r2] # Idle
  /\ cookie = NoSid \/ cookie < nextSid

\* a request that may come to save a generated session finds an id left
SidAvailable(cookie) ==
  \/ cookie \in DOMAIN store
  \/ nextSid + Cardinality({r \in Slots : /\ reqs[r].type \in {"register", "login"}
                                          /\ reqs[r].sid = NoSid}) <= MaxSid

\* resave: false, saveUninitialized: false: the session is written back only
\* if the handler changed it
ShouldSave(req, sess) == sess # req.sess

\* res.end with req.session = sess: save the session if modified, then send
\* the response
Respond(r, req, sess, reply) ==
  LET save == ShouldSave(req, sess)
      sid == IF req.sid = NoSid /\ save THEN nextSid ELSE req.sid
  IN /\ store' = IF save
                 THEN [s \in DOMAIN store \cup {sid} |->
                         IF s = sid THEN sess ELSE store[s]]
                 ELSE store
     /\ nextSid' = IF req.sid = NoSid /\ save THEN nextSid + 1 ELSE nextSid
     /\ last' = [slot |-> r, status |-> reply.status, body |-> reply.body,
                 cookie |-> IF save THEN SetCookie(sid) ELSE NoCookie,
                 req |-> [req EXCEPT !.sid = sid, !.pc = "done"],
                 sess |-> sess]
     /\ reqs' = [reqs EXCEPT ![r] = Idle]
     /\ loggedOut' = IF req.type \in {"register", "login"} /\ reply.status = 200
                     THEN loggedOut \ {sid} ELSE loggedOut
     /\ up' = up

\* the handler reaches an await, or the store executes an operation whose
\* answer the handler awaits: nothing is sent yet
Await(r, req, pc) ==
  /\ reqs' = [reqs EXCEPT ![r] = [req EXCEPT !.pc = pc]]
  /\ last' = NoResponse
  /\ UNCHANGED <<store, nextSid, up, loggedOut>>

\* an awaited promise rejects inside an async handler with no try/catch: no
\* response is sent and the unhandled rejection ends the process (node 18)
Reject(r) ==
  /\ reqs' = [reqs EXCEPT ![r].pc = "rejected"]
  /\ last' = NoResponse
  /\ up' = FALSE
  /\ UNCHANGED <<store, nextSid, loggedOut>>

\* ------------------------------------------------------ POST /api/register
\* arrival up to "await User.findOne"
Register(r, k, cookie, username, password) ==
  /\ CanArrive(r, k, cookie)
  /\ SidAvailable(cookie)
  /\ LET req == NewRequest("register", cookie, username, password, Idle.answers)
     IN IF username = "" \/ password = "" \/ password = Absent
        THEN Respond(r, req, req.sess, ValidationResponse)
        ELSE Await(r, req, "findOne")
  /\ UNCHANGED users

\* the store executes the lookup; its answer is on its way to the handler
RegisterFind(r) ==
  /\ Running
  /\ reqs[r].type = "register" /\ reqs[r].pc = "findOne"
  /\ LET req == reqs[r]
         existingUser == FindOne(users, req.username)
     IN Await(r, [req EXCEPT !.user = IF existingUser # 0
                                      THEN Doc(users, existingUser)
                                      ELSE NoUser],
              "found")
  /\ UNCHANGED users

\* the handler resumes with existingUser; up to "await bcrypt.hash"
RegisterFound(r) ==
  /\ Running
  /\ reqs[r].type = "register" /\ reqs[r].pc = "found"
  /\ LET req == reqs[r]
     IN IF req.user # NoUser
        THEN Respond(r, req, req.sess, ConflictResponse)
        ELSE Await(r, req, "hash")
  /\ UNCHANGED users

\* the handler resumes with passwordHash; up to "await User.create"
RegisterHashed(r) ==
  /\ Running
  /\ reqs[r].type = "register" /\ reqs[r].pc = "hash"
  /\ \E salt \in Salts :
       Await(r, [reqs[r] EXCEPT !.passwordHash = Hash(reqs[r].password, salt)],
             "create")
  /\ UNCHANGED users

\* the store executes the insert, or refuses it by the unique index
RegisterCreate(r) ==
  /\ Running
  /\ reqs[r].type = "register" /\ reqs[r].pc = "create"
  /\ LET req == reqs[r]
         newUsers == Append(users, NewUserDoc(req.username, req.passwordHash))
     IN IF UniqueIndexViolated(users, req.username)
        THEN /\ Await(r, req, "refused")
             /\ UNCHANGED users
        ELSE /\ users' = newUsers
             /\ Await(r, [req EXCEPT !.user = Doc(newUsers, Len(newUsers))],
                      "created")

\* the handler resumes with newUser: the session is bound and the response
\* sent; or the insert was refused and the await throws
RegisterRespond(r) ==
  /\ Running
  /\ reqs[r].type = "register" /\ reqs[r].pc \in {"created", "refused"}
  /\ LET req == reqs[r]
     IN IF req.pc = "refused"
        THEN Reject(r)
        ELSE Respond(r, req, RegisterSession(req.user),
                     RegisteredResponse(req.user))
  /\ UNCHANGED users

\* --------------------------------------------------------- POST /api/login
Login(r, k, cookie, username, password) ==
  /\ CanArrive(r, k, cookie)
  /\ SidAvailable(cookie)
  /\ Await(r, NewRequest("login", cookie, username, password, Idle.answers),
           "findOne")
  /\ UNCHANGED users

\* the store executes the lookup; its answer is on its way to the handler
LoginFind(r) ==
  /\ Running
  /\ reqs[r].type = "login" /\ reqs[r].pc = "findOne"
  /\ LET req == reqs[r]
         user == FindOne(users, req.username)
     IN Await(r, [req EXCEPT !.user = IF user # 0 THEN Doc(users, user)
                                      ELSE NoUser],
              "found")
  /\ UNCHANGED users

\* the handler resumes with user; up to "await bcrypt.compare"
LoginFound(r) ==
  /\ Running
  /\ reqs[r].type = "login" /\ reqs[r].pc = "found"
  /\ LET req == reqs[r]
     IN IF req.user = NoUser
        THEN Respond(r, req, req.sess, UnknownUserResponse)
        ELSE Await(r, req, "compare")
  /\ UNCHANGED users

\* the handler resumes with valid (or the comparison rejected a password that
\* is no string)
LoginRespond(r) ==
  /\ Running
  /\ reqs[r].type = "login" /\ reqs[r].pc = "compare"
  /\ LET req == reqs[r]
     IN IF ~IsString(req.password)
        THEN Reject(r)
        ELSE IF ~Compare(req.password, req.user.passwordHash)
        THEN Respond(r, req, req.sess, WrongPasswordResponse)
        ELSE Respond(r, req, LoginSession(req.user),
                     LoggedInResponse(req.user))
  /\ UNCHANGED users

\* -------------------------------------------------------- POST /api/logout
\* the handler calls req.session.destroy: the stored session is deleted and
\* req.session unset; the callback is deferred
Logout(r, k, cookie) ==
  /\ CanArrive(r, k, cookie)
  /\ LET req == NewRequest("logout", cookie, "", "", Idle.answers)
         destroyed == Destroy(store, req.sid)
     IN /\ store' = destroyed.sessions
        /\ reqs' = [reqs EXCEPT ![r] = [req EXCEPT !.pc = "destroy",
                                                   !.err = destroyed.err]]
  /\ last' = NoResponse
  /\ UNCHANGED <<users, nextSid, up, loggedOut>>

\* the callback of destroy: the cookie is cleared and the response sent;
\* req.session is unset, so nothing is saved when the response ends
LogoutRespond(r) ==
  /\ Running
  /\ reqs[r].type = "logout" /\ reqs[r].pc = "destroy"
  /\ LET req == reqs[r]
         reply == LogoutResponse(req.err)
     IN /\ last' = [slot |-> r, status |-> reply.status, body |-> reply.body,
                    cookie |-> IF req.err THEN NoCookie ELSE ClearCookie,
                    req |-> [req EXCEPT !.pc = "done"],
                    sess |-> EmptySession]
        /\ reqs' = [reqs EXCEPT ![r] = Idle]
        /\ loggedOut' = IF req.err THEN loggedOut
                        ELSE loggedOut \cup ({req.sid} \ {NoSid})
  /\ UNCHANGED <<users, store, nextSid, up>>

\* -------------------------------------------------------------- GET /api/me
Me(r, k, cookie) ==
  /\ CanArrive(r, k, cookie)
  /\ LET req == NewRequest("me", cookie, "", "", Idle.answers)
     IN Respond(r, req, req.sess, MeResponse(req.sess))
  /\ UNCHANGED users

\* --------------------------------------------------- GET /api/quiz/questions
Questions(r, k, cookie) ==
  /\ CanArrive(r, k, cookie)
  /\ LET req == NewRequest("questions", cookie, "", "", Idle.answers)
     IN IF ~requireLogin(req.sess)
        THEN Respond(r, req, req.sess, UnauthorizedResponse)
        ELSE Respond(r, req, req.sess, QuestionsResponse)
  /\ UNCHANGED users

\* ----------------------------------------------------- POST /api/quiz/submit
\* arrival up to "await User.updateOne"
Submit(r, k, cookie, answers) ==
  /\ CanArrive(r, k, cookie)
  /\ LET req == NewRequest("submit", cookie, "", "", answers)
     IN IF ~requireLogin(req.sess)
        THEN Respond(r, req, req.sess, UnauthorizedResponse)
        ELSE IF AnswersInvalid(answers)
        THEN Respond(r, req, req.sess, AnswersRequiredResponse)
        ELSE Await(r, [req EXCEPT !.score = ComputeScore(answers)], "update")
  /\ UNCHANGED users

\* the store applies the update (overwritten: a later update of the same
\* user has replaced the score a waiting submission wrote)
SubmitUpdate(r) ==
  /\ Running
  /\ reqs[r].type = "submit" /\ reqs[r].pc = "update"
  /\ LET req == reqs[r]
     IN /\ users' = UpdateOne(users, req.sess.userId, req.score)
        /\ reqs' = [r2 \in Slots |->
                      IF r2 = r THEN [req EXCEPT !.pc = "respond"]
                      ELSE IF /\ reqs[r2].type = "submit"
                              /\ reqs[r2].pc = "respond"
                              /\ reqs[r2].sess.userId = req.sess.userId
                      THEN [reqs[r2] EXCEPT !.overwritten = TRUE]
                      ELSE reqs[r2]]
  /\ last' = NoResponse
  /\ UNCHANGED <<store, nextSid, up, loggedOut>>

\* the update answers: the session score is set and the response sent
SubmitRespond(r) ==
  /\ Running
  /\ reqs[r].type = "submit" /\ reqs[r].pc = "respond"
  /\ LET req == reqs[r]
     IN Respond(r, req, SubmitSession(req.sess, req.score),
                SubmitResponse(req.score))
  /\ UNCHANGED users

\* the response that the latest step ended is written to the socket
Deliver ==
  /\ last # NoResponse
  /\ last' = NoResponse
  /\ UNCHANGED <<users, store, nextSid, reqs, up, loggedOut>>

\* ------------------------------------------------------------ specifications
Cookies == {NoSid} \cup Sids

\* k: requests in flight at once; RC, LC, A: the credentials and "answers"
\* values clients send
Step(k, RC, LC, A) ==
  \/ \E r \in Slots, c \in Cookies, cr \in RC : Register(r, k, c, cr[1], cr[2])
  \/ \E r \in Slots : RegisterFind(r)
  \/ \E r \in Slots : RegisterFound(r)
  \/ \E r \in Slots : RegisterHashed(r)
  \/ \E r \in Slots : RegisterCreate(r)
  \/ \E r \in Slots : RegisterRespond(r)
  \/ \E r \in Slots, c \in Cookies, cr \in LC : Login(r, k, c, cr[1], cr[2])
  \/ \E r \in Slots : LoginFind(r)
  \/ \E r \in Slots : LoginFound(r)
  \/ \E r \in Slots : LoginRespond(r)
  \/ \E r \in Slots, c \in Cookies : Logout(r, k, c)
  \/ \E r \in Slots : LogoutRespond(r)
  \/ \E r \in Slots, c \in Cookies : Me(r, k, c)
  \/ \E r \in Slots, c \in Cookies : Questions(r, k, c)
  \/ \E r \in Slots, c \in Cookies, a \in A : Submit(r, k, c, a)
  \/ \E r \in Slots : SubmitUpdate(r)
  \/ \E r \in Slots : SubmitRespond(r)
  \/ Deliver

\* concurrent requests
Next == Step(MaxInFlight, RegisterSome, LoginSome, AnswersSome)
Spec == Init /\ [][Next]_vars

\* one request at a time
SeqNext == Step(1, RegisterCredentials, Credentials, AnswersSome)
SeqSpec == Init /\ [][SeqNext]_vars

\* the quiz routes on their own, for every "answers" value, from the state
\* in which alice has registered
QuizInit ==
  /\ users = <<NewUserDoc("alice", Hash("pw1", "salt1"))>>
  /\ store = <<RegisterSession(Doc(users, 1))>>
  /\ nextSid = 2
  /\ reqs = [r \in Slots |-> Idle]
  /\ last = NoResponse
  /\ up = TRUE
  /\ loggedOut = {}
QuizNext ==
  \/ \E c \in Cookies : Questions(1, 1, c)
  \/ \E c \in Cookies, a \in AnswersAll : Submit(1, 1, c, a)
  \/ SubmitUpdate(1)
  \/ SubmitRespond(1)
  \/ Deliver
QuizSpec == QuizInit /\ [][QuizNext]_vars

\* ------------------------------------------------------------------- claims
InDirectory(username) == \E i \in DOMAIN users : users[i].username = username

Responded(type) == last.slot # 0 /\ last.req.type = type

\* C1: the User collection never holds two documents with the same username,
\* whatever the interleaving of registrations.
C1_UniqueUsernames ==
  \A i, j \in DOMAIN users : users[i].username = users[j].username => i = j

\* two registrations of one username both passed the lookup; the second
\* insert was refused
C1_RaceRefused ==
  \E r \in Slots :
    /\ reqs[r].type = "register" /\ reqs[r].pc = "rejected"
    /\ InDirectory(reqs[r].username)

\* C2: with one request at a time, a registration with a non-empty username
\* and password answers 200 with the user stored and the caller's session
\* bound to it with score 0, or 409; its lookup finds a user exactly when the
\* username is in the collection; the handler answers 409 exactly when the
\* lookup found one, and the 409 changes neither the collection nor any
\* stored session.
C2_RegisterThenConflict ==
  /\ [](Responded("register") /\ last.req.username # ""
          /\ last.req.password \notin {"", Absent}
        => \/ /\ last.status = 200
              /\ last.body = [message |-> "Registered and logged in",
                              username |-> last.req.username]
              /\ last.req.user.id \in DOMAIN users
              /\ users[last.req.user.id].username = last.req.username
              /\ Compare(last.req.password,
                         users[last.req.user.id].passwordHash)
              /\ last.req.sid \in DOMAIN store
              /\ store[last.req.sid] = [userId |-> last.req.user.id,
                                        username |-> last.req.username,
                                        score |-> 0]
           \/ /\ last.status = 409
              /\ last.body = Error("User already exists")
              /\ InDirectory(last.req.username))
  /\ [][\A r \in Slots :
          reqs[r].type = "register" /\ reqs[r].pc = "findOne"
          /\ reqs'[r] # reqs[r]
          => /\ reqs'[r].pc = "found"
             /\ reqs'[r].user # NoUser <=> InDirectory(reqs[r].username)]_vars
  /\ [][\A r \in Slots :
          reqs[r].type = "register" /\ reqs[r].pc = "found"
          /\ reqs'[r] # reqs[r]
          => IF InDirectory(reqs[r].username)
             THEN /\ last'.slot = r /\ last'.status = 409
                  /\ last'.sess = reqs[r].sess
                  /\ UNCHANGED <<users, store>>
             ELSE /\ last' = NoResponse /\ reqs'[r].pc = "hash"]_vars

\* a registration was answered 409
C2_SecondRegistrationRefused ==
  Responded("register") /\ last.status = 409 /\ last.req.username = "alice"

\* C3: once a logout completed on a session id, a /api/me that arrives on it
\* answers authenticated:false and a quiz request that arrives on it answers
\* 401, until a login or registration completes on it; and a quiz request is
\* answered other than 401 only with a userId in its session.
C3_LogoutEndsSession ==
  /\ last.req.afterLogout
     => IF last.req.type = "me" THEN last.body = [authenticated |-> FALSE]
        ELSE last.status = 401
  /\ \A r \in Slots : ~reqs[r].afterLogout
  /\ (Responded("questions") \/ Responded("submit")) /\ last.status # 401
     => requireLogin(last.req.sess)

\* C4: the questions response has one entry per catalog question, in catalog
\* order, each with exactly the fields id, q and options.
C4_AnswerKeyRedacted ==
  Responded("questions") /\ last.status = 200
  => LET qs == last.body.questions
     IN /\ Len(qs) = Len(quizQuestions)
        /\ \A i \in 1..Len(qs) :
             /\ DOMAIN qs[i] = {"id", "q", "options"}
             /\ qs[i].id = quizQuestions[i].id
             /\ qs[i].q = quizQuestions[i].q
             /\ qs[i].options = quizQuestions[i].options

C4_QuestionsServed ==
  Responded("questions") /\ last.status = 200 /\ Len(last.body.questions) = 3

\* the number of catalog questions whose selection is a number equal to the
\* correct index
CorrectCount(a) ==
  Cardinality({i \in 1..Len(quizQuestions) :
                 LET sel == Lookup(a, quizQuestions[i].id)
                 IN sel.t = "number" /\ sel.v = quizQuestions[i].answerIndex})

\* C5: the score a submission answers is the number of catalog questions whose
\* selection is present, a number and the correct index, whatever the score
\* before; it lies in 0..total, is 0 for an empty mapping and total (3) for
\* {1:1, 2:0, 3:1}; and a mapping from a logged-in caller is always answered
\* 200, whatever its selections.
C5_ScoreCountsCorrectSelections ==
  /\ Responded("submit") /\ last.status = 200
     => /\ last.body.score = CorrectCount(last.req.answers)
        /\ last.body.total = Len(quizQuestions)
        /\ last.body.score \in 0..last.body.total
        /\ last.req.answers = AnsObject(<<>>) => last.body.score = 0
        /\ last.req.answers = AllCorrect
           => last.body.score = 3 /\ last.body.total = 3
  /\ Responded("submit") /\ requireLogin(last.req.sess)
       /\ last.req.answers.kind = "object"
     => last.status = 200

\* a submission with a correct selection sent as a string, over an earlier
\* score of 3, scored the two other questions only
C5_StringSelectionNotScored ==
  /\ Responded("submit") /\ last.status = 200
  /\ last.req.answers.kind = "object"
  /\ Lookup(last.req.answers, 1) = Sel("string", 1)
  /\ last.req.sess.score = 3
  /\ last.body.score = 2

\* C6: with one request at a time, a completed submission leaves its score in
\* the caller's stored session and in the user's document; a document's score
\* changes only by a submission of that user; and a completed login leaves
\* the user's persisted score in the caller's stored session.
C6_ScoreSurvivesRelogin ==
  /\ [](Responded("submit") /\ last.status = 200
        => /\ last.req.sid \in DOMAIN store
           /\ store[last.req.sid].score = last.body.score
           /\ users[store[last.req.sid].userId].score = last.body.score)
  /\ [](Responded("login") /\ last.status = 200
        => /\ last.req.sid \in DOMAIN store
           /\ store[last.req.sid].userId \in DOMAIN users
           /\ users[store[last.req.sid].userId].username = last.req.username
           /\ store[last.req.sid].username = last.req.username
           /\ store[last.req.sid].score
                = users[store[last.req.sid].userId].score)
  /\ [][\A i \in DOMAIN users :
          users'[i].score # users[i].score
          => \E r \in Slots :
               /\ reqs[r].type = "submit" /\ reqs[r].pc = "update"
               /\ reqs[r].sess.userId = i
               /\ users'[i].score = reqs[r].score]_vars

\* after a logout, a login on a new session found the score a submission
\* had recorded
C6_ReloginFoundScore ==
  /\ Responded("login") /\ last.status = 200
  /\ loggedOut # {} /\ last.req.sid \notin loggedOut
  /\ last.req.sess = EmptySession
  /\ last.sess.score > 0

\* C7: a login for a username that is not in the collection, and a login with
\* a string password that does not match the stored hash, are both answered
\* 400 {error: 'Invalid credentials'}; a login answered other than 200
\* changes neither the collection nor any stored session.
C7_InvalidCredentialsUniform ==
  /\ [](Responded("login")
          /\ \/ ~InDirectory(last.req.username)
             \/ /\ IsString(last.req.password)
                /\ \A i \in DOMAIN users :
                     users[i].username = last.req.username
                     => ~Compare(last.req.password, users[i].passwordHash)
        => /\ last.status = 400
           /\ last.body = Error("Invalid credentials")
           /\ last.sess = last.req.sess)
  /\ [][last'.slot # 0 /\ last'.req.type = "login" /\ last'.status # 200
        => UNCHANGED <<users, store>>]_vars

\* a login for a registered username with a wrong, non-empty password was
\* answered
C7_WrongPasswordAnswered ==
  /\ Responded("login") /\ InDirectory(last.req.username)
  /\ last.req.password = "pw2"
  /\ last.status = 400

\* C8: a submission by a logged-in caller whose answers is absent or is not a
\* mapping is answered 400 and never reaches the score update.
C8_NonMappingRejected ==
  /\ Responded("submit") /\ requireLogin(last.req.sess)
       /\ last.req.answers.kind # "object"
     => last.status = 400
  /\ \A r \in Slots :
       reqs[r].type = "submit" => reqs[r].answers.kind = "object"

\* C9: a request whose store operation or hash primitive failed is answered
\* 500.
C9_FailureAnswered500 ==
  \A r \in Slots :
    reqs[r].pc = "rejected" => last.slot = r /\ last.status = 500

\* C10 as stated: when a submission is answered with score s, the caller's
\* session score and the persisted score of the session's user are both s.
C10_ResponseMatchesPersisted ==
  Responded("submit") /\ last.status = 200
  => /\ last.sess.score = last.body.score
     /\ users[last.req.sess.userId].score = last.body.score

\* C10 amended: when a submission is answered with score s, the request's
\* session score is s; its update set the user's persisted score to s when
\* it was applied; and the persisted score is still s at the response unless
\* the update of another submission of that user was applied in between.
C10_ResponseMatchesUnlessOverwritten ==
  /\ [](Responded("submit") /\ last.status = 200
        => /\ last.sess.score = last.body.score
           /\ ~last.req.overwritten
              => users[last.req.sess.userId].score = last.body.score)
  /\ [][\A r \in Slots :
          reqs[r].type = "submit" /\ reqs[r].pc = "update"
          /\ reqs'[r].pc = "respond"
          => users'[reqs[r].sess.userId].score = reqs[r].score]_vars

\* a submission was answered while another one of the same user, from another
\* session, waited for its update
C10_ConcurrentSubmissions ==
  /\ Responded("submit") /\ last.status = 200
  /\ \E r \in Slots :
       /\ reqs[r].type = "submit" /\ reqs[r].pc = "update"
       /\ reqs[r].sess.userId = last.req.sess.userId
       /\ reqs[r].sid # last.req.sid
       /\ reqs[r].score # last.body.score

====
